---- MODULE Spec2Model ----
(***************************************************************************)
(* flask_fixtures.loaders: the registry of fixture loaders (add, remove,   *)
(* _get_loaders_cls), the dispatch facade (load) and extensions().         *)
(*                                                                         *)
(* The state is the module-level list _custom_loaders, the list Python     *)
(* keeps behind FixtureLoader.__subclasses__() and the outcome of the last *)
(* call made by the collaborator.  File names and extensions are sequences *)
(* of one-character strings so that os.path.splitext is computed, not      *)
(* assumed.  Every loader class of the universe overrides the abstract     *)
(* load method, so that cls() can be instantiated.                         *)
(***************************************************************************)
EXTENDS Naturals, Sequences, FiniteSets

VARIABLES
    _custom_loaders,  \* loaders.py:86, the module-level list
    subclasses,       \* FixtureLoader.__subclasses__(), in definition order
    defined,          \* the custom classes the collaborator has defined
    call,             \* the last call: [op, arg]
    raised,           \* the exception the last call ended with, or NoError
    returned,         \* the value the last call returned, or None
    invoked,          \* the loader classes whose load() the last call ran
    warned,           \* the loader classes the last call logged a warning for
    settings          \* config.settings.get(JSON_PARSE_DATETIME)

vars == <<_custom_loaders, subclasses, defined, call, raised, returned,
          invoked, warned, settings>>

-----------------------------------------------------------------------------
(* Bounds *)

MaxCustom == 2    \* longest _custom_loaders list explored, dispatch included
MaxRegistry == 3  \* longest _custom_loaders list explored, registry calls only

-----------------------------------------------------------------------------
(* Extensions and file names *)

json == <<".", "j", "s", "o", "n">>
js == <<".", "j", "s">>
yaml == <<".", "y", "a", "m", "l">>
yml == <<".", "y", "m", "l">>
csv == <<".", "c", "s", "v">>
targz == <<".", "t", "a", "r", ".", "g", "z">>

Filenames ==
    { <<"f">> \o json, <<"f">> \o js, <<"f">> \o yaml, <<"f">> \o yml,
      <<"f">> \o csv,
      <<"f", ".", "t", "x", "t">>,
      <<"f", ".", "Y", "M", "L">>,
      <<"f">> \o targz,
      <<"f">>,
      json                            \* a hidden file named ".json"
    }

Range(s) == { s[i] : i \in 1..Len(s) }

\* str.rfind, 1-based: the last index of ch in p, 0 when there is none
rfind(p, ch) ==
    LET hits == { i \in 1..Len(p) : p[i] = ch }
    IN  IF hits = {} THEN 0 ELSE CHOOSE i \in hits : \A j \in hits : j <= i

\* a splitext that cuts at the first dot of the base name, so that a double
\* extension is kept whole
_splitext_first_dot(p) ==
    LET sepIndex == rfind(p, "/")
        dots == { i \in (sepIndex + 2)..Len(p) : p[i] = "." }
        dotIndex == IF dots = {} THEN 0
                    ELSE CHOOSE i \in dots : \A j \in dots : i <= j
    IN  IF dotIndex > 0
        THEN <<SubSeq(p, 1, dotIndex - 1), SubSeq(p, dotIndex, Len(p))>>
        ELSE <<p, <<>>>>

\* os.path.splitext (genericpath._splitext with sep "/", no altsep):
\* the pair <<root, ext>>
_splitext(p) ==
    LET sepIndex == rfind(p, "/")
        dotIndex == rfind(p, ".")
        nonDots == { i \in (sepIndex + 1)..(dotIndex - 1) : p[i] # "." }
    IN  IF dotIndex > sepIndex /\ nonDots # {}
        THEN <<SubSeq(p, 1, dotIndex - 1), SubSeq(p, dotIndex, Len(p))>>
        ELSE <<p, <<>>>>

splitext_of == [p \in Filenames |-> _splitext(p)]

splitext(p) == splitext_of[p]

-----------------------------------------------------------------------------
(* The objects the collaborator can pass, and the classes among them *)

BuiltinLoaders == <<"JSONLoader", "YAMLLoader">>

CustomClasses ==
    {"CSVLoader", "AltLoader", "NoExtLoader", "EmptyExtLoader"}

Classes ==
    {"object", "dict", "FixtureLoader"} \cup Range(BuiltinLoaders)
        \cup CustomClasses

\* "a_string" is an instance, not a class; "dict" is a class outside the
\* FixtureLoader hierarchy
NonClasses == {"a_string"}

\* The outcome of a call: the exception it ended with (NoError when it
\* returned) and the value it returned (None when it returned nothing)
NoError == [type |-> "NoError", msg |-> "", filename |-> <<>>]
ValueError(m) == [type |-> "ValueError", msg |-> m, filename |-> <<>>]
AttributeError == [type |-> "AttributeError", msg |-> "extensions",
                   filename |-> <<>>]
\* loaders.py:134
UnsupportedFormat(filename) ==
    [type |-> "Exception", msg |-> "Unsupported file format.",
     filename |-> filename]
\* whatever open() or the parser of a loader raised, passed on unchanged
LoaderError(filename) ==
    [type |-> "LoaderError", msg |-> "", filename |-> filename]

None == [kind |-> "None", value |-> <<>>]
List(l) == [kind |-> "list", value |-> l]
\* the value cls().load(filename) decoded
Decoded(cls, filename) == [kind |-> "data", value |-> <<cls, filename>>]

\* Each class's base and its own class body: whether it assigns
\* `extensions` and to what
ClassDict(c) ==
    CASE c = "JSONLoader" ->
            [base |-> "FixtureLoader", declares |-> TRUE,
             extensions |-> <<json, js>>]
      [] c = "YAMLLoader" ->
            [base |-> "FixtureLoader", declares |-> TRUE,
             extensions |-> <<yaml, yml>>]
      [] c = "CSVLoader" ->
            [base |-> "FixtureLoader", declares |-> TRUE,
             extensions |-> <<csv>>]
      [] c = "AltLoader" ->
            [base |-> "FixtureLoader", declares |-> TRUE,
             extensions |-> <<targz, json, csv>>]
      [] c = "NoExtLoader" ->
            [base |-> "FixtureLoader", declares |-> FALSE,
             extensions |-> <<>>]
      [] c = "EmptyExtLoader" ->
            [base |-> "YAMLLoader", declares |-> TRUE,
             extensions |-> <<>>]
      [] c = "FixtureLoader" ->
            [base |-> "object", declares |-> FALSE, extensions |-> <<>>]
      [] OTHER ->
            [base |-> "object", declares |-> FALSE, extensions |-> <<>>]

\* The method resolution order of a class, itself first, "object" last
RECURSIVE linearize(_)
linearize(c) == IF c = "object" THEN <<"object">>
                ELSE <<c>> \o linearize(ClassDict(c).base)

mro_of == [c \in Classes |-> linearize(c)]

mro(c) == mro_of[c]

isclass(obj) == obj \in Classes

issubclass(c, base) == base \in Range(mro(c))

\* Attribute lookup of `extensions` along the MRO of cls: whether some class
\* assigns it, and the assignment of the first class that does
lookup_extensions(cls) ==
    LET m == mro(cls)
        found == { k \in 1..Len(m) : ClassDict(m[k]).declares }
    IN  IF found = {} THEN [has |-> FALSE, value |-> <<>>]
        ELSE [has |-> TRUE,
              value |-> ClassDict(m[CHOOSE k \in found :
                                      \A j \in found : k <= j]).extensions]

attribute_of == [c \in Classes |-> lookup_extensions(c)]

\* hasattr(cls, 'extensions')
hasattr_extensions(cls) == attribute_of[cls].has

\* cls.extensions
getattr_extensions(cls) == attribute_of[cls].value

_is_loader(obj) == isclass(obj) /\ issubclass(obj, "FixtureLoader")

\* What the collaborator passes to add and remove: a non-class, a class that
\* is no loader, a built-in loader, and the custom classes defined so far
Objects ==
    NonClasses \cup {"dict", "JSONLoader"} \cup defined

-----------------------------------------------------------------------------
(* Registry *)

\* list.remove(x) on a list that holds x: the first occurrence goes
list_remove(l, x) ==
    LET i == CHOOSE k \in 1..Len(l) :
                l[k] = x /\ \A j \in 1..(k - 1) : l[j] # x
    IN  SubSeq(l, 1, i - 1) \o SubSeq(l, i + 1, Len(l))

\* [x for x in l if keep(x)] for the membership test of _get_loaders_cls
RECURSIVE not_in(_, _)
not_in(l, custom) ==
    IF l = <<>> THEN <<>>
    ELSE IF l[1] \in Range(custom) THEN not_in(Tail(l), custom)
    ELSE <<l[1]>> \o not_in(Tail(l), custom)

get_loaders_of(custom, subs) == custom \o not_in(subs, custom)

_get_loaders_cls == get_loaders_of(_custom_loaders, subclasses)

Init ==
    /\ _custom_loaders = <<>>
    /\ subclasses = BuiltinLoaders
    /\ defined = {}
    /\ call = [op |-> "import", arg |-> "None"]
    /\ raised = NoError
    /\ returned = None
    /\ invoked = <<>>
    /\ warned = <<>>
    /\ settings = "unset"

\* class C(Base): ... executed by the collaborator
define_class(c) ==
    /\ c \in CustomClasses \ defined
    /\ ClassDict(c).base \in {"FixtureLoader"} \cup Range(BuiltinLoaders)
                             \cup defined
    /\ defined' = defined \cup {c}
    /\ subclasses' = IF ClassDict(c).base = "FixtureLoader"
                     THEN Append(subclasses, c) ELSE subclasses
    /\ call' = [op |-> "class", arg |-> c]
    /\ raised' = NoError
    /\ returned' = None
    /\ invoked' = <<>>
    /\ warned' = <<>>
    /\ UNCHANGED <<_custom_loaders, settings>>

\* add with the append ahead of the _is_loader check
add_before_check(cls) ==
    /\ cls \in Objects
    /\ call' = [op |-> "add", arg |-> cls]
    /\ returned' = None
    /\ invoked' = <<>>
    /\ warned' = <<>>
    /\ _custom_loaders' = Append(_custom_loaders, cls)
    /\ raised' = IF ~_is_loader(cls)
                 THEN ValueError("Unsupported loader class.") ELSE NoError
    /\ UNCHANGED <<subclasses, defined, settings>>

\* add with insert(0, cls) in place of append(cls)
add_at_front(cls) ==
    /\ cls \in Objects
    /\ call' = [op |-> "add", arg |-> cls]
    /\ returned' = None
    /\ invoked' = <<>>
    /\ warned' = <<>>
    /\ IF ~_is_loader(cls)
       THEN /\ raised' = ValueError("Unsupported loader class.")
            /\ UNCHANGED _custom_loaders
       ELSE /\ raised' = NoError
            /\ _custom_loaders' = <<cls>> \o _custom_loaders
    /\ UNCHANGED <<subclasses, defined, settings>>

add(cls) ==
    /\ cls \in Objects
    /\ call' = [op |-> "add", arg |-> cls]
    /\ returned' = None
    /\ invoked' = <<>>
    /\ warned' = <<>>
    /\ IF ~_is_loader(cls)
       THEN /\ raised' = ValueError("Unsupported loader class.")
            /\ UNCHANGED _custom_loaders
       ELSE /\ raised' = NoError
            /\ _custom_loaders' = Append(_custom_loaders, cls)
    /\ UNCHANGED <<subclasses, defined, settings>>

remove(cls) ==
    /\ cls \in Objects
    /\ call' = [op |-> "remove", arg |-> cls]
    /\ returned' = None
    /\ invoked' = <<>>
    /\ warned' = <<>>
    /\ IF ~_is_loader(cls)
       THEN /\ raised' = NoError
            /\ UNCHANGED _custom_loaders
       ELSE IF cls \in Range(_custom_loaders)
       THEN /\ raised' = NoError
            /\ _custom_loaders' = list_remove(_custom_loaders, cls)
       ELSE \* list.remove(x): x not in list
            /\ raised' = ValueError("list.remove(x): x not in list")
            /\ UNCHANGED _custom_loaders
    /\ UNCHANGED <<subclasses, defined, settings>>

-----------------------------------------------------------------------------
(* Dispatch *)

\* matches with ext.startswith(extension) in place of extension == ext
matches_startswith(cls, extension) ==
    \E i \in 1..Len(getattr_extensions(cls)) :
        LET ext == getattr_extensions(cls)[i]
        IN  /\ Len(extension) <= Len(ext)
            /\ SubSeq(ext, 1, Len(extension)) = extension

\* The inner loop of load: some ext of cls.extensions equals extension
matches(cls, extension) ==
    \E i \in 1..Len(getattr_extensions(cls)) :
        extension = getattr_extensions(cls)[i]

\* first_match with the loop going on after a match: the last match wins
last_match(loaders, extension) ==
    LET hits == { i \in 1..Len(loaders) :
                    /\ hasattr_extensions(loaders[i])
                    /\ matches(loaders[i], extension) }
    IN  IF hits = {} THEN 0 ELSE CHOOSE i \in hits : \A j \in hits : j <= i

\* The index in loaders of the class the loop of load returns from, 0 when
\* the loop runs to its end
first_match(loaders, extension) ==
    LET hits == { i \in 1..Len(loaders) :
                    /\ hasattr_extensions(loaders[i])
                    /\ matches(loaders[i], extension) }
    IN  IF hits = {} THEN 0 ELSE CHOOSE i \in hits : \A j \in hits : i <= j

\* The classes of loaders[1..n] the loop logs a warning for, in order
RECURSIVE missing_extensions(_, _)
missing_extensions(loaders, n) ==
    IF n = 0 THEN <<>>
    ELSE missing_extensions(loaders, n - 1) \o
         (IF hasattr_extensions(loaders[n]) THEN <<>> ELSE <<loaders[n]>>)

\* cls().load(filename): the loader returns the decoded value or raises
loader_load(cls, filename) ==
    \/ /\ raised' = NoError
       /\ returned' = Decoded(cls, filename)
    \/ /\ raised' = LoaderError(filename)
       /\ returned' = None

\* load that remembers the loader it selected by registering it
load_registering(filename) ==
    LET extension == splitext(filename)[2]
        loaders == _get_loaders_cls
        m == first_match(loaders, extension)
    IN  /\ filename \in Filenames
        /\ call' = [op |-> "load", arg |-> filename]
        /\ IF m # 0
           THEN /\ warned' = missing_extensions(loaders, m - 1)
                /\ invoked' = <<loaders[m]>>
                /\ loader_load(loaders[m], filename)
                /\ _custom_loaders' =
                       IF loaders[m] \in Range(_custom_loaders)
                       THEN _custom_loaders
                       ELSE Append(_custom_loaders, loaders[m])
           ELSE /\ warned' = missing_extensions(loaders, Len(loaders))
                /\ invoked' = <<>>
                /\ raised' = UnsupportedFormat(filename)
                /\ returned' = None
                /\ UNCHANGED _custom_loaders
        /\ UNCHANGED <<subclasses, defined, settings>>

\* load that falls back on the first loader when no extension matches
load_with_default(filename) ==
    LET extension == splitext(filename)[2]
        loaders == _get_loaders_cls
        m == first_match(loaders, extension)
    IN  /\ filename \in Filenames
        /\ call' = [op |-> "load", arg |-> filename]
        /\ IF m # 0
           THEN /\ warned' = missing_extensions(loaders, m - 1)
                /\ invoked' = <<loaders[m]>>
                /\ loader_load(loaders[m], filename)
           ELSE /\ warned' = missing_extensions(loaders, Len(loaders))
                /\ invoked' = <<loaders[1]>>
                /\ loader_load(loaders[1], filename)
        /\ UNCHANGED <<_custom_loaders, subclasses, defined, settings>>

\* load without the hasattr guard: reading cls.extensions of a class that
\* has none ends the call with AttributeError
load_without_guard(filename) ==
    LET extension == splitext(filename)[2]
        loaders == _get_loaders_cls
        m == first_match(loaders, extension)
        n == IF m # 0 THEN m - 1 ELSE Len(loaders)
    IN  /\ filename \in Filenames
        /\ call' = [op |-> "load", arg |-> filename]
        /\ warned' = <<>>
        /\ IF missing_extensions(loaders, n) # <<>>
           THEN /\ invoked' = <<>>
                /\ raised' = AttributeError
                /\ returned' = None
           ELSE IF m # 0
           THEN /\ invoked' = <<loaders[m]>>
                /\ loader_load(loaders[m], filename)
           ELSE /\ invoked' = <<>>
                /\ raised' = UnsupportedFormat(filename)
                /\ returned' = None
        /\ UNCHANGED <<_custom_loaders, subclasses, defined, settings>>

load(filename) ==
    LET extension == splitext(filename)[2]
        loaders == _get_loaders_cls
        m == first_match(loaders, extension)
    IN  /\ filename \in Filenames
        /\ call' = [op |-> "load", arg |-> filename]
        /\ IF m # 0
           THEN /\ warned' = missing_extensions(loaders, m - 1)
                /\ invoked' = <<loaders[m]>>
                /\ loader_load(loaders[m], filename)
           ELSE /\ warned' = missing_extensions(loaders, Len(loaders))
                /\ invoked' = <<>>
                /\ raised' = UnsupportedFormat(filename)
                /\ returned' = None
        /\ UNCHANGED <<_custom_loaders, subclasses, defined, settings>>

\* [ext for c in subs for ext in c.extensions]
RECURSIVE flatten_extensions(_)
flatten_extensions(subs) ==
    IF subs = <<>> THEN <<>>
    ELSE getattr_extensions(subs[1]) \o flatten_extensions(Tail(subs))

extensions ==
    /\ call' = [op |-> "extensions", arg |-> "None"]
    /\ invoked' = <<>>
    /\ warned' = <<>>
    /\ IF \A i \in 1..Len(subclasses) : hasattr_extensions(subclasses[i])
       THEN /\ raised' = NoError
            /\ returned' = List(flatten_extensions(subclasses))
       ELSE /\ raised' = AttributeError
            /\ returned' = None
    /\ UNCHANGED <<_custom_loaders, subclasses, defined, settings>>

\* The exploration stops growing the list at max entries; a call that would
\* be rejected is explored at any length
within(max, cls) == _is_loader(cls) => Len(_custom_loaders) < max

Next ==
    \/ \E c \in CustomClasses : define_class(c)
    \/ \E cls \in Objects : within(MaxCustom, cls) /\ add(cls)
    \/ \E cls \in Objects : remove(cls)
    \/ \E filename \in Filenames : load(filename)
    \/ extensions

Spec == Init /\ [][Next]_vars

\* The registry calls alone, on longer lists
NextRegistry ==
    \/ \E c \in CustomClasses : define_class(c)
    \/ \E cls \in Objects : within(MaxRegistry, cls) /\ add(cls)
    \/ \E cls \in Objects : remove(cls)

SpecRegistry == Init /\ [][NextRegistry]_vars

-----------------------------------------------------------------------------
(* The built-in parsers: file contents, dtparse, the JSON object hook *)

\* A decoded value is a tagged tree.  The text of a file is stood for by the
\* tree its JSON or YAML text denotes.
Str(chars) == [t |-> "str", v |-> chars]
Int(n) == [t |-> "int", v |-> n]
Null == [t |-> "null", v |-> <<>>]
Dict(items) == [t |-> "dict", v |-> items]     \* items: <<key, value>> pairs
ListOf(elems) == [t |-> "list", v |-> elems]
Datetime(y, m, d) == [t |-> "datetime", v |-> <<y, m, d, 0, 0, 0>>]

iso_date == <<"2", "0", "2", "4", "-", "0", "1", "-", "1", "5">>
short_date == <<"2", "0", "2", "4", "-", "1", "-", "5">>
bad_day == <<"2", "0", "2", "4", "-", "0", "2", "-", "3", "0">>
slash_date == <<"2", "0", "2", "4", "/", "0", "1", "/", "1", "5">>
report == <<"2", "0", "2", "4", " ", "r", "e", "p", "o", "r", "t">>

Leaves ==
    { Str(iso_date), Str(short_date), Str(bad_day), Str(slash_date),
      Str(report), Int(5), Null }

\* The contents of the fixture files loaded: scalars, mappings, nested
\* mappings, and lists inside and around mappings
Documents ==
    Leaves
    \cup { Dict(<< <<"k", l>> >>) : l \in Leaves }
    \cup { Dict(<< <<"created_at", Str(iso_date)>>, <<"name", l>> >>) :
               l \in Leaves }
    \cup { Dict(<< <<"outer", Dict(<< <<"k", l>> >>)>> >>) : l \in Leaves }
    \cup { ListOf(<< Dict(<< <<"k", l>> >>), l >>) : l \in Leaves }
    \cup { Dict(<< <<"k", ListOf(<<l>>)>> >>) : l \in Leaves }

\* what config.settings.get(JSON_PARSE_DATETIME) can return: None when the
\* option is unset, or the value it was set to
SettingValues == {"unset", "False", "True"}

truthy(value) == value = "True"

Digits == <<"0", "1", "2", "3", "4", "5", "6", "7", "8", "9">>

digit(ch) == CHOOSE n \in 0..9 : Digits[n + 1] = ch

isdigits(chars) == \A i \in 1..Len(chars) : chars[i] \in Range(Digits)

RECURSIVE int(_)
int(chars) ==
    IF chars = <<>> THEN 0
    ELSE 10 * int(SubSeq(chars, 1, Len(chars) - 1)) + digit(chars[Len(chars)])

isleap(y) == (y % 4 = 0 /\ y % 100 # 0) \/ y % 400 = 0

days_in_month(y, m) ==
    IF m = 2 THEN (IF isleap(y) THEN 29 ELSE 28)
    ELSE IF m \in {4, 6, 9, 11} THEN 30 ELSE 31

\* the outcome of a call: a value returned or an exception raised
Returns(value) == [ok |-> TRUE, value |-> value, exc |-> ""]
Raises(exc) == [ok |-> FALSE, value |-> Null, exc |-> exc]

\* datetime.strptime(dtstring, '%Y-%m-%d'): four digits, a month of one or
\* two digits, a day of one or two digits (or a blank and a digit), nothing
\* left over, and a date that exists
strptime(dtstring) ==
    IF dtstring.t # "str" THEN Raises("TypeError")
    ELSE
    LET s == dtstring.v
        dashes == { i \in 1..Len(s) : s[i] = "-" }
        i == CHOOSE a \in dashes : \A b \in dashes : a <= b
        j == CHOOSE a \in dashes : \A b \in dashes : b <= a
        Y == SubSeq(s, 1, i - 1)
        M == SubSeq(s, i + 1, j - 1)
        D == SubSeq(s, j + 1, Len(s))
        D1 == IF Len(D) = 2 /\ D[1] = " " THEN <<D[2]>> ELSE D
    IN  IF /\ Cardinality(dashes) = 2
           /\ Len(Y) = 4 /\ isdigits(Y)
           /\ Len(M) \in {1, 2} /\ isdigits(M) /\ int(M) \in 1..12
           /\ Len(D) \in {1, 2} /\ isdigits(D1) /\ int(D1) \in 1..31
           /\ int(Y) >= 1
           /\ int(D1) <= days_in_month(int(Y), int(M))
        THEN Returns(Datetime(int(Y), int(M), int(D1)))
        ELSE Raises("ValueError")

\* dateutil.parser.parse on the strings of the model: it reads what strptime
\* reads and takes "/" between the fields as well
dateutil_parse(dtstring) ==
    IF dtstring.t # "str" THEN Raises("TypeError")
    ELSE strptime(Str([i \in 1..Len(dtstring.v) |->
                          IF dtstring.v[i] = "/" THEN "-"
                          ELSE dtstring.v[i]]))

\* dtparse is bound at import to dateutil's parse when dateutil is
\* installed, and to the strptime fallback when it is not
dtparse(dtstring, dateutil) ==
    IF dateutil THEN dateutil_parse(dtstring) ELSE strptime(dtstring)

\* an object hook that leaves out the entries whose parse failed
_datetime_parser_dropping(dct, dateutil) ==
    LET kept == { i \in 1..Len(dct.v) : dtparse(dct.v[i][2], dateutil).ok }
        RECURSIVE collect(_)
        collect(n) ==
            IF n = 0 THEN <<>>
            ELSE IF n \in kept
                 THEN Append(collect(n - 1),
                             <<dct.v[n][1],
                               dtparse(dct.v[n][2], dateutil).value>>)
                 ELSE collect(n - 1)
    IN  Dict(collect(Len(dct.v)))

\* _datetime_parser: every value is handed to dtparse; the entry is
\* assigned on success and left alone on any Exception
_datetime_parser(dct, dateutil) ==
    Dict([i \in 1..Len(dct.v) |->
            LET key == dct.v[i][1]
                value == dct.v[i][2]
                parsed == dtparse(value, dateutil)
            IN  IF parsed.ok THEN <<key, parsed.value>> ELSE <<key, value>>])

\* json.load(fin, object_hook=...): the hook is called on every mapping once
\* its members are decoded, innermost first; without a hook the tree is
\* returned as decoded
RECURSIVE json_load(_, _, _)
json_load(fin, object_hook, dateutil) ==
    IF fin.t = "dict"
    THEN LET members == Dict([i \in 1..Len(fin.v) |->
                 <<fin.v[i][1], json_load(fin.v[i][2], object_hook, dateutil)>>])
         IN  IF object_hook THEN _datetime_parser(members, dateutil)
             ELSE members
    ELSE IF fin.t = "list"
    THEN ListOf([i \in 1..Len(fin.v) |->
                    json_load(fin.v[i], object_hook, dateutil)])
    ELSE fin

Data(value) == [kind |-> "data", value |-> value]

\* setting or clearing the option, done by the caller through config
configure(value) ==
    /\ value \in SettingValues
    /\ value # settings
    /\ settings' = value
    /\ call' = [op |-> "configure", arg |-> value]
    /\ raised' = NoError
    /\ returned' = None
    /\ UNCHANGED <<_custom_loaders, subclasses, defined, invoked, warned>>

\* JSONLoader.load that hands the hook to json.load whatever the option says
JSONLoader_load_always(filename, fin, dateutil) ==
    /\ call' = [op |-> "JSONLoader.load",
                arg |-> [filename |-> filename, fin |-> fin,
                         dateutil |-> dateutil]]
    /\ \/ /\ raised' = NoError
          /\ returned' = Data(json_load(fin, TRUE, dateutil))
       \/ /\ raised' = LoaderError(filename)
          /\ returned' = None
    /\ UNCHANGED <<_custom_loaders, subclasses, defined, invoked, warned,
                   settings>>

\* JSONLoader().load(filename) on a file holding fin; open() or the decoder
\* may raise
JSONLoader_load(filename, fin, dateutil) ==
    LET parse_datetime == settings
    IN  /\ call' = [op |-> "JSONLoader.load",
                    arg |-> [filename |-> filename, fin |-> fin,
                             dateutil |-> dateutil]]
        /\ \/ /\ raised' = NoError
              /\ returned' =
                    IF truthy(parse_datetime)
                    THEN Data(json_load(fin, TRUE, dateutil))
                    ELSE Data(json_load(fin, FALSE, dateutil))
           \/ /\ raised' = LoaderError(filename)
              /\ returned' = None
        /\ UNCHANGED <<_custom_loaders, subclasses, defined, invoked, warned,
                       settings>>

\* YAMLLoader().load(filename): what yaml.load made of the file, or the
\* exception of open(), of the parser or of the stand-in for a missing PyYAML
YAMLLoader_load(filename, fin) ==
    /\ call' = [op |-> "YAMLLoader.load",
                arg |-> [filename |-> filename, fin |-> fin,
                         dateutil |-> FALSE]]
    /\ \/ /\ raised' = NoError
          /\ returned' = Data(fin)
       \/ /\ raised' = LoaderError(filename)
          /\ returned' = None
    /\ UNCHANGED <<_custom_loaders, subclasses, defined, invoked, warned,
                   settings>>

\* what yaml.load can hand back: the documents, and timestamps of its own
YAMLDocuments ==
    Documents \cup {Datetime(2024, 1, 15),
                    Dict(<< <<"k", Datetime(2024, 1, 15)>> >>)}

NextParsers ==
    \/ \E value \in SettingValues : configure(value)
    \/ \E fin \in Documents, dateutil \in BOOLEAN :
           JSONLoader_load(<<"f">> \o json, fin, dateutil)
    \/ \E fin \in YAMLDocuments : YAMLLoader_load(<<"f">> \o yaml, fin)

SpecParsers == Init /\ [][NextParsers]_vars

-----------------------------------------------------------------------------
(* Vocabulary of the properties *)

\* cls declares extension e: it has an extension declaration and e is in it
Declares(cls, e) ==
    /\ hasattr_extensions(cls)
    /\ e \in Range(getattr_extensions(cls))

\* cls has no extension declaration, or an empty one
Undeclared(cls) ==
    ~hasattr_extensions(cls) \/ getattr_extensions(cls) = <<>>

BuiltinExtensions == <<json, js, yaml, yml>>

\* The extension of the file the last call was about (a load call)
LoadedExtension == splitext(call.arg)[2]

\* The positions of list_loaders() whose loader declares e
Declaring(e) ==
    { i \in 1..Len(_get_loaders_cls) : Declares(_get_loaders_cls[i], e) }

Least(S) == CHOOSE i \in S : \A j \in S : i <= j

-----------------------------------------------------------------------------
(* C1: after register(L) and unregister(L), for a custom loader L whose    *)
(* extension no built-in (and no other known loader) declares, a load of a *)
(* file with that extension fails with the unsupported-format error and    *)
(* does not invoke L.  Stated for the load made right after the            *)
(* unregister(L) that took L off the list.                                 *)
C1_UnregisteredLoaderNotUsed ==
    [][\A f \in Filenames :
        LET L == call.arg
            e == splitext(f)[2]
        IN  ( /\ call.op = "remove"
              /\ raised = NoError
              /\ L \in CustomClasses
              /\ L \notin Range(_custom_loaders)
              /\ Declares(L, e)
              /\ e \notin Range(BuiltinExtensions)
              /\ \A i \in Declaring(e) : _get_loaders_cls[i] = L
              /\ load(f) )
            => ( /\ raised' = UnsupportedFormat(f)
                 /\ L \notin Range(invoked') )
      ]_vars

(* C2: unregister(x) is a no-op when x was never registered or x is not a  *)
(* loader: it raises no error and leaves _custom_loaders as it was.        *)
C2_UnregisterUnknownIsNoOp ==
    [][\A x \in Objects :
        ( /\ remove(x)
          /\ (x \notin Range(_custom_loaders) \/ ~_is_loader(x)) )
        => ( /\ raised' = NoError
             /\ _custom_loaders' = _custom_loaders )
      ]_vars

(* C3: register(x) with an x that is not a class, or is a class that does  *)
(* not subclass FixtureLoader, fails with a ValueError and leaves the      *)
(* registry unchanged: list_loaders() is the same before and after.        *)
C3_InvalidRegistrationRejected ==
    [][\A x \in Objects :
        ( /\ add(x)
          /\ (~isclass(x) \/ ~issubclass(x, "FixtureLoader")) )
        => ( /\ raised'.type = "ValueError"
             /\ _custom_loaders' = _custom_loaders
             /\ _get_loaders_cls' = _get_loaders_cls )
      ]_vars

\* A rejected registration of each kind, made on a non-empty registry
C3_Witness ==
    /\ call.op = "add"
    /\ call.arg = "dict"
    /\ raised.type = "ValueError"
    /\ _custom_loaders # <<>>

(* C4: list_loaders() is the custom loaders, in registration order,        *)
(* followed by exactly the built-in loaders (JSONLoader, YAMLLoader) that  *)
(* are not among the custom loaders.  Stated for the states right after a  *)
(* successful register or unregister call in which every custom class is   *)
(* registered or is the one just unregistered.                             *)
C4_CustomThenBuiltins ==
    ( /\ call.op \in {"add", "remove"}
      /\ raised = NoError
      /\ defined \subseteq Range(_custom_loaders) \cup {call.arg} )
    => _get_loaders_cls =
          _custom_loaders \o
          SelectSeq(BuiltinLoaders,
                    LAMBDA c : c \notin Range(_custom_loaders))

(* C5: right after a successful register(L), L is the first loader         *)
(* list_loaders() returns.                                                 *)
C5_RegisteredLoaderIsFirst ==
    [][\A x \in Objects :
        (add(x) /\ _is_loader(x)) => _get_loaders_cls'[1] = x
      ]_vars

(* C5, amended: right after a successful register(L), list_loaders() is    *)
(* the previously registered custom loaders in their order, then L, then   *)
(* only loaders that are not registered; and for every extension L         *)
(* declares that no previously registered loader declares, L is the loader *)
(* dispatch selects.                                                       *)
C5_RegisteredLoaderIsLastCustom ==
    [][\A x \in Objects :
        (add(x) /\ _is_loader(x)) =>
            LET l == _get_loaders_cls'
                n == Len(_custom_loaders) + 1
            IN  /\ Len(_custom_loaders') = n
                /\ SubSeq(l, 1, n - 1) = _custom_loaders
                /\ l[n] = x
                /\ \A i \in (n + 1)..Len(l) :
                        l[i] \notin Range(_custom_loaders')
                /\ \A e \in Range(getattr_extensions(x)) :
                        (\A i \in 1..(n - 1) : ~Declares(l[i], e))
                        => Least({ i \in 1..Len(l) : Declares(l[i], e) })
                             = n
      ]_vars

\* AltLoader registered after another custom loader, ahead of the built-in
\* JSONLoader whose extension it shares
C5_Witness ==
    /\ call.op = "add"
    /\ call.arg = "AltLoader"
    /\ raised = NoError
    /\ _custom_loaders = <<"NoExtLoader", "AltLoader">>
    /\ _get_loaders_cls[2] = "AltLoader"
    /\ "JSONLoader" \in Range(_get_loaders_cls)

(* C6: dispatch is first-match-wins: when some loader of list_loaders()    *)
(* declares the file's extension, load invokes exactly one loader, the     *)
(* first such loader in list order, and what it returns is that loader's   *)
(* result.                                                                 *)
C6_FirstMatchWins ==
    (call.op = "load" /\ Declaring(LoadedExtension) # {}) =>
        LET first == _get_loaders_cls[Least(Declaring(LoadedExtension))]
        IN  /\ invoked = <<first>>
            /\ raised \in {NoError, LoaderError(call.arg)}
            /\ raised = NoError => returned = Decoded(first, call.arg)
            /\ raised # NoError => returned = None

\* A load of a .csv file with two registered loaders and a third known
\* loader declaring .csv: the first registered one ran
C6_Witness ==
    /\ call.op = "load"
    /\ LoadedExtension = csv
    /\ Cardinality(Declaring(csv)) >= 2
    /\ _custom_loaders = <<"AltLoader", "CSVLoader">>
    /\ invoked = <<"AltLoader">>
    /\ returned = Decoded("AltLoader", call.arg)

(* C7: when no loader of list_loaders() declares the file's extension,     *)
(* load fails with the unsupported-format error naming the file, and no    *)
(* loader's load is invoked.                                               *)
C7_UnsupportedFormat ==
    (call.op = "load" /\ Declaring(LoadedExtension) = {}) =>
        /\ raised.type = "Exception"
        /\ raised.msg = "Unsupported file format."
        /\ raised.filename = call.arg
        /\ invoked = <<>>
        /\ returned = None

\* A .txt file refused while custom loaders are registered
C7_Witness ==
    /\ call.op = "load"
    /\ call.arg = <<"f", ".", "t", "x", "t">>
    /\ _custom_loaders # <<>>
    /\ raised = UnsupportedFormat(call.arg)
    /\ invoked = <<>>

(* C8: a loader whose extension declaration is missing or empty is never   *)
(* invoked by load, whatever the file name; a missing declaration is       *)
(* logged as a warning and never ends the call with an error; and dispatch *)
(* goes on to the loaders after it.                                        *)
C8_UndeclaredLoaderSkipped ==
    call.op = "load" =>
        LET l == _get_loaders_cls
            D == Declaring(LoadedExtension)
            scanned == IF D = {} THEN Len(l) ELSE Least(D) - 1
        IN  /\ \A i \in 1..Len(invoked) : ~Undeclared(invoked[i])
            /\ raised.type # "AttributeError"
            /\ \A i \in 1..scanned :
                    ~hasattr_extensions(l[i]) => l[i] \in Range(warned)
            /\ \A i \in 1..Len(warned) : ~hasattr_extensions(warned[i])
            /\ D # {} => invoked = <<l[Least(D)]>>

\* A load that passed over a loader with no declaration and one with an
\* empty declaration, warned about the former, and reached a loader behind
\* them
C8_Witness ==
    /\ call.op = "load"
    /\ _custom_loaders = <<"NoExtLoader", "EmptyExtLoader">>
    /\ warned = <<"NoExtLoader">>
    /\ invoked = <<"YAMLLoader">>
    /\ raised = NoError

(* C9: a load of a .json or .js file invokes the built-in JSONLoader, and  *)
(* a load of a .yaml or .yml file invokes the built-in YAMLLoader.         *)
C9_BuiltinParserAlways ==
    call.op = "load" =>
        /\ LoadedExtension \in {json, js} => invoked = <<"JSONLoader">>
        /\ LoadedExtension \in {yaml, yml} => invoked = <<"YAMLLoader">>

(* C9, amended: the same, in every state in which no registered custom     *)
(* loader other than the built-in itself declares the file's extension.    *)
C9_BuiltinParserUnlessOverridden ==
    call.op = "load" =>
        LET e == LoadedExtension
            overridden(builtin) ==
                \E i \in 1..Len(_custom_loaders) :
                    /\ _custom_loaders[i] # builtin
                    /\ Declares(_custom_loaders[i], e)
        IN  /\ (e \in {json, js} /\ ~overridden("JSONLoader"))
                    => invoked = <<"JSONLoader">>
            /\ (e \in {yaml, yml} /\ ~overridden("YAMLLoader"))
                    => invoked = <<"YAMLLoader">>

\* A .js file loaded by the built-in while AltLoader, which declares .json
\* but not .js, is registered ahead of it
C9_Witness ==
    /\ call.op = "load"
    /\ LoadedExtension = js
    /\ "AltLoader" \in Range(_custom_loaders)
    /\ invoked = <<"JSONLoader">>

(* C10: extensions() returns the extensions of the built-in loaders        *)
(* (.json, .js, .yaml, .yml) and never fails, whatever custom loader       *)
(* classes have been defined, registered or unregistered.                  *)
C10_ExtensionsAreBuiltinOnly ==
    call.op = "extensions" =>
        /\ raised = NoError
        /\ returned.kind = "list"
        /\ returned.value = BuiltinExtensions

\* res is orig with the object hook applied to every mapping: the keys of
\* orig in place, a timestamp where dtparse of the value succeeds, and the
\* value with its own mappings treated alike where it fails
RECURSIVE Coerced(_, _, _)
Coerced(orig, res, dateutil) ==
    IF orig.t = "dict"
    THEN /\ res.t = "dict"
         /\ Len(res.v) = Len(orig.v)
         /\ \A i \in 1..Len(orig.v) :
               /\ res.v[i][1] = orig.v[i][1]
               /\ IF dtparse(orig.v[i][2], dateutil).ok
                  THEN /\ res.v[i][2].t = "datetime"
                       /\ res.v[i][2] = dtparse(orig.v[i][2], dateutil).value
                  ELSE Coerced(orig.v[i][2], res.v[i][2], dateutil)
    ELSE IF orig.t = "list"
    THEN /\ res.t = "list"
         /\ Len(res.v) = Len(orig.v)
         /\ \A i \in 1..Len(orig.v) : Coerced(orig.v[i], res.v[i], dateutil)
    ELSE res = orig

(* C11: with the option on, a JSON load that got past open() and the      *)
(* decoder raises nothing, and in every mapping of the result each key of  *)
(* the file is there once, in place, holding the timestamp when dtparse    *)
(* of its value succeeds and the value as decoded when dtparse fails       *)
(* (strings that are no dates, numbers, null, lists, nested mappings).     *)
C11_CoercionNeverFails ==
    (call.op = "JSONLoader.load" /\ truthy(settings)) =>
        /\ raised \in {NoError, LoaderError(call.arg.filename)}
        /\ raised = NoError =>
              /\ returned.kind = "data"
              /\ Coerced(call.arg.fin, returned.value, call.arg.dateutil)

\* {"created_at": "2024-01-15", "name": "2024 report"} loaded with the
\* option on: created_at is midnight of that day, name is the string
C11_Witness ==
    /\ call.op = "JSONLoader.load"
    /\ settings = "True"
    /\ call.arg.fin = Dict(<< <<"created_at", Str(iso_date)>>,
                             <<"name", Str(report)>> >>)
    /\ raised = NoError
    /\ returned = Data(Dict(<< <<"created_at", Datetime(2024, 1, 15)>>,
                              <<"name", Str(report)>> >>))

(* C12: a load step, whether it returns data, fails in the selected       *)
(* loader's parser or fails as unsupported, leaves the custom registry,    *)
(* the subclass list, the option and hence list_loaders() as they were.    *)
C12_LoadLeavesRegistry ==
    [][call'.op = "load" =>
          /\ raised' \in {NoError, LoaderError(call'.arg),
                         UnsupportedFormat(call'.arg)}
          /\ _custom_loaders' = _custom_loaders
          /\ subclasses' = subclasses
          /\ defined' = defined
          /\ settings' = settings
          /\ get_loaders_of(_custom_loaders', subclasses') = _get_loaders_cls
      ]_vars

\* A load that failed in the parser of a built-in loader while a custom
\* loader was registered
C12_Witness ==
    /\ call.op = "load"
    /\ raised = LoaderError(call.arg)
    /\ invoked = <<"YAMLLoader">>
    /\ _custom_loaders = <<"CSVLoader">>

(* C13: a loader is invoked by load only if one of its declared extensions *)
(* equals, character for character, the suffix of the file name that       *)
(* starts at its last "."; so f.YML never reaches the loader declaring     *)
(* .yml, and f.tar.gz never reaches a loader on account of .tar.gz.        *)
C13_ExactLastExtension ==
    call.op = "load" =>
        LET p == call.arg
            dots == { i \in 1..Len(p) : p[i] = "." }
            suffix == SubSeq(p, CHOOSE i \in dots : \A j \in dots : j <= i,
                             Len(p))
        IN  /\ invoked # <<>> =>
                /\ dots # {}
                /\ \E i \in 1..Len(getattr_extensions(invoked[1])) :
                       getattr_extensions(invoked[1])[i] = suffix
            /\ p = <<"f", ".", "Y", "M", "L">> => invoked = <<>>
            /\ p = <<"f">> \o targz => invoked = <<>>

\* f.tar.gz refused although AltLoader, which declares .tar.gz, is registered
C13_Witness ==
    /\ call.op = "load"
    /\ call.arg = <<"f">> \o targz
    /\ "AltLoader" \in Range(_custom_loaders)
    /\ invoked = <<>>
    /\ raised = UnsupportedFormat(call.arg)

(* C14: with the option unset or off, a JSON load returns the tree of the  *)
(* file as decoded, dates in strings included; a YAML load returns what    *)
(* yaml.load produced whatever the option is.                              *)
C14_CoercionOnlyWhenEnabled ==
    /\ (call.op = "JSONLoader.load" /\ ~truthy(settings) /\ raised = NoError)
           => returned = Data(call.arg.fin)
    /\ (call.op = "YAMLLoader.load" /\ raised = NoError)
           => returned = Data(call.arg.fin)

\* {"k": "2024-01-15"} loaded from JSON with the option set to False
C14_Witness ==
    /\ call.op = "JSONLoader.load"
    /\ settings = "False"
    /\ call.arg.fin = Dict(<< <<"k", Str(iso_date)>> >>)
    /\ raised = NoError
    /\ returned = Data(call.arg.fin)

(* C15: unregistering L right after registering it gives back the custom   *)
(* registry as it was before the pair of calls, whether or not L was       *)
(* registered already.  add appends, so the registry before a successful   *)
(* add is the present one without its last entry.                          *)
C15_RegisterUnregisterRoundTrip ==
    [][(/\ call.op = "add"
        /\ raised = NoError
        /\ call'.op = "remove"
        /\ call'.arg = call.arg)
          => _custom_loaders' =
                 SubSeq(_custom_loaders, 1, Len(_custom_loaders) - 1)
      ]_vars

(* C16: the list of loaders holds no class twice, and a class is out of    *)
(* the custom registry once a remove of it has returned.                   *)
C16_NoDuplicateLoaders ==
    /\ \A i, j \in 1..Len(_get_loaders_cls) :
           _get_loaders_cls[i] = _get_loaders_cls[j] => i = j
    /\ (call.op = "remove" /\ raised = NoError /\ _is_loader(call.arg))
           => call.arg \notin Range(_custom_loaders)

(* C17: every entry of the custom registry is a class that subclasses      *)
(* FixtureLoader, whatever add and remove calls were made and however      *)
(* they ended.                                                             *)
C17_RegistryHoldsLoaders ==
    \A i \in 1..Len(_custom_loaders) :
        /\ _custom_loaders[i] \in Classes
        /\ "FixtureLoader" \in Range(linearize(_custom_loaders[i]))

\* A rejected add of a string after a custom and a built-in loader were
\* registered
C17_Witness ==
    /\ call = [op |-> "add", arg |-> "a_string"]
    /\ raised.type = "ValueError"
    /\ _custom_loaders = <<"CSVLoader", "JSONLoader">>

====
